---- MODULE Spec2Model ----
(***************************************************************************)
(* OPL Manager image converter (src/v_2/opl_image_converter.py).           *)
(*                                                                         *)
(* ImageProcessor: the format gate (is_supported_format), the transform    *)
(* (convert_resize_image) and the batch loop with its output naming        *)
(* (batch_process).                                                        *)
(*                                                                         *)
(* Paths and file names are sequences of atoms: "/" is the separator, "."  *)
(* the extension separator, "_" the underscore the naming policy inserts,  *)
(* a number stands for its decimal digits, every other atom is a word that *)
(* holds none of these characters.                                         *)
(*                                                                         *)
(* Python floats are IEEE binary64.  A positive float is the record        *)
(* [m, e]: the value is m * 2^e, where m, 2^52 <= m < 2^53, is kept as     *)
(* five limbs <<1, d3, d2, d1, d0>> in base 2^13, most significant first.  *)
(***************************************************************************)
EXTENDS Integers, Sequences, FiniteSets, TLC

(***************************************************************************)
(* Bounds of the model.                                                    *)
(***************************************************************************)
\* source images of every size 1..MaxDim x 1..MaxDim are converted
MaxDim == 6
\* inputs handed to batch_process in one behaviour, over all its calls
MaxInputs == 3
\* longest path (in atoms) the format gate is tried on
MaxPathLen == 4

(***************************************************************************)
(* binary64 arithmetic: int / int, float / float, float * float, int(),    *)
(* and >, as lines 53-63 use them.  All values are positive and normal.    *)
(***************************************************************************)
LimbBase == 2 ^ 13

RECURSIVE Pow2(_)
Pow2(n) == IF n = 0 THEN 1 ELSE 2 * Pow2(n - 1)

RECURSIVE Log2(_)
Log2(n) == IF n < 2 THEN 0 ELSE 1 + Log2(n \div 2)

\* Limbs of any sign whose weighted sum is >= 0, carried from limb i upwards so
\* that every limb below the first lies in 0..LimbBase-1.
RECURSIVE Carry(_, _)
Carry(c, i) ==
    IF i = 1 THEN c
    ELSE Carry([c EXCEPT ![i] = @ % LimbBase, ![i - 1] = @ + c[i] \div LimbBase], i - 1)

MantGe(a, b) ==
    \/ a[1] > b[1]
    \/ a[1] = b[1] /\ a[2] > b[2]
    \/ a[1] = b[1] /\ a[2] = b[2] /\ a[3] > b[3]
    \/ a[1] = b[1] /\ a[2] = b[2] /\ a[3] = b[3] /\ a[4] > b[4]
    \/ a[1] = b[1] /\ a[2] = b[2] /\ a[3] = b[3] /\ a[4] = b[4] /\ a[5] >= b[5]

\* k * a - b on five limbs, for k * a >= b
MantSub(k, a, b) == Carry([i \in 1..5 |-> k * a[i] - b[i]], 5)

\* m * 2^e, moved up by one unit in the last place when up holds.
RoundNearest(m, up, e) ==
    IF ~up THEN [m |-> m, e |-> e]
    ELSE IF m = <<1, LimbBase - 1, LimbBase - 1, LimbBase - 1, LimbBase - 1>>
    THEN [m |-> <<1, 0, 0, 0, 0>>, e |-> e + 1]
    ELSE [m |-> Carry([m EXCEPT ![5] = @ + 1], 5), e |-> e]

\* float(n) for an int 1 <= n < 2^26 (exact)
FromInt(n) ==
    [m |-> <<1, ((n * Pow2(26 - Log2(n))) \div LimbBase) % LimbBase,
             (n * Pow2(26 - Log2(n))) % LimbBase, 0, 0>>,
     e |-> Log2(n) - 52]

\* the leading 17 bits of five limbs
Lead(r) == r[1] * (2 ^ 16) + r[2] * 8 + r[3] \div (2 ^ 10)

\* r * LimbBase - d * y on five limbs
DivRest(r, y, d) ==
    Carry(<<r[1] * LimbBase + r[2] - d * y[1], r[3] - d * y[2], r[4] - d * y[3],
            r[5] - d * y[4], 0 - d * y[5]>>, 5)

\* the estimated digit d is the digit or one less; the remainder t decides
DivFix(d, t, y) ==
    IF MantGe(t, y) THEN [d |-> d + 1, r |-> MantSub(1, t, y)] ELSE [d |-> d, r |-> t]

\* One base-2^13 digit of the long division r / y, for r < y: the digit and the
\* remainder.
DivDigit(r, y) ==
    DivFix((Lead(r) * LimbBase) \div (Lead(y) + 1),
           DivRest(r, y, (Lead(r) * LimbBase) \div (Lead(y) + 1)), y)

\* n more digits of the quotient q, and the remainder left
RECURSIVE LongDiv(_, _, _, _)
LongDiv(q, r, y, n) ==
    IF n = 0 THEN [q |-> q, r |-> r]
    ELSE LET s == DivDigit(r, y)
         IN  LongDiv(Append(q, s.d), s.r, y, n - 1)

\* the quotient q with remainder r of a division by y is rounded up: 2r > y, or
\* 2r = y and q is odd
RoundsUp(q, r, y) ==
    LET r2 == Carry([i \in 1..5 |-> 2 * r[i]], 5)
    IN  IF r2 = y THEN q[5] % 2 = 1 ELSE MantGe(r2, y)

FDivRound(s, y, e) == RoundNearest(s.q, RoundsUp(s.q, s.r, y), e)

\* a / b, rounded to nearest, ties to even
FDiv(a, b) ==
    IF MantGe(a.m, b.m)
    THEN FDivRound(LongDiv(<<1>>, MantSub(1, a.m, b.m), b.m, 4), b.m, a.e - b.e - 52)
    ELSE FDivRound(LongDiv(<<1>>, MantSub(2, a.m, b.m), b.m, 4), b.m, a.e - b.e - 53)

\* the nine limbs of the product of two five-limb mantissas
MantMul(x, y) ==
    Carry(<<x[1] * y[1],
            x[2] * y[1] + x[1] * y[2],
            x[3] * y[1] + x[2] * y[2] + x[1] * y[3],
            x[4] * y[1] + x[3] * y[2] + x[2] * y[3] + x[1] * y[4],
            x[5] * y[1] + x[4] * y[2] + x[3] * y[3] + x[2] * y[4] + x[1] * y[5],
            x[5] * y[2] + x[4] * y[3] + x[3] * y[4] + x[2] * y[5],
            x[5] * y[3] + x[4] * y[4] + x[3] * y[5],
            x[5] * y[4] + x[4] * y[5],
            x[5] * y[5]>>, 9)

\* the limbs below p[k] are not all zero
Sticky(p, k) == \E i \in (k + 1)..Len(p) : p[i] # 0

\* a product p of 105 bits (p[1] = 1): 53 bits are p[1..5], half a unit is p[6]
FMulRound105(p, e) ==
    RoundNearest(SubSeq(p, 1, 5),
                 /\ p[6] >= LimbBase \div 2
                 /\ (p[6] > LimbBase \div 2 \/ Sticky(p, 6) \/ p[5] % 2 = 1),
                 e)

\* p shifted right by one bit, on its first five limbs; p[1] is 2 or 3
Halved(p) ==
    <<1, (p[1] % 2) * (LimbBase \div 2) + p[2] \div 2,
         (p[2] % 2) * (LimbBase \div 2) + p[3] \div 2,
         (p[3] % 2) * (LimbBase \div 2) + p[4] \div 2,
         (p[4] % 2) * (LimbBase \div 2) + p[5] \div 2>>

\* a product p of 106 bits: half a unit is the last bit of p[5]
FMulRound106(p, e) ==
    RoundNearest(Halved(p),
                 /\ p[5] % 2 = 1
                 /\ (Sticky(p, 5) \/ Halved(p)[5] % 2 = 1),
                 e)

FMulRound(p, e) == IF p[1] = 1 THEN FMulRound105(p, e) ELSE FMulRound106(p, e + 1)

\* a * b, rounded to nearest, ties to even
FMul(a, b) == FMulRound(MantMul(a.m, b.m), a.e + b.e + 52)

\* a > b
FGt(a, b) == a.e > b.e \/ (a.e = b.e /\ a.m # b.m /\ MantGe(a.m, b.m))

\* int(x): truncation, for 0 < x < 2^26
Trunc(x) ==
    IF 0 - x.e > 52 THEN 0
    ELSE (x.m[1] * LimbBase * LimbBase + x.m[2] * LimbBase + x.m[3]) \div Pow2(0 - x.e - 26)

(***************************************************************************)
(* Paths: os.path.splitext, os.path.basename, os.path.join, str.lower.     *)
(***************************************************************************)
sep == "/"
extsep == "."

\* str.rfind: the last position of atom a in s, 0 when there is none
rfind(s, a) ==
    LET I == {i \in DOMAIN s : s[i] = a}
    IN  IF I = {} THEN 0 ELSE CHOOSE i \in I : \A j \in I : j <= i

\* os.path.splitext: <<root, ext>>; the extension starts at the last dot of the
\* last component, unless only dots come before it in that component
splitext(p) ==
    LET sepIndex == rfind(p, sep)
        dotIndex == rfind(p, extsep)
    IN  IF /\ dotIndex > sepIndex
           /\ \E i \in (sepIndex + 1)..(dotIndex - 1) : p[i] # extsep
        THEN <<SubSeq(p, 1, dotIndex - 1), SubSeq(p, dotIndex, Len(p))>>
        ELSE <<p, <<>>>>

\* os.path.basename
basename(p) == SubSeq(p, rfind(p, sep) + 1, Len(p))

\* os.path.dirname
dirname(p) == SubSeq(p, 1, rfind(p, sep) - 1)

\* os.path.join(a, b) for a relative b
join(a, b) == a \o <<sep>> \o b

\* str.lower on one atom
LowerAtom(w) ==
    CASE w = "PNG" -> "png"
      [] w = "Png" -> "png"
      [] w = "JPG" -> "jpg"
      [] w = "TXT" -> "txt"
      [] OTHER -> w

lower(s) == [i \in DOMAIN s |-> LowerAtom(s[i])]

(***************************************************************************)
(* ImageProcessor: the tables.                                             *)
(***************************************************************************)
DIMENSIONS ==
    [caratula |-> <<140, 200>>,
     borde |-> <<18, 240>>,
     contracaratula |-> <<242, 344>>,
     captura |-> <<250, 168>>,
     fondo |-> <<640, 480>>,
     disco |-> <<128, 128>>,
     logo |-> <<300, 125>>]

SUPPORTED_FORMATS ==
    {<<".", "jpg">>, <<".", "jpeg">>, <<".", "png">>, <<".", "bmp">>,
     <<".", "webp">>, <<".", "tiff">>, <<".", "gif">>}

\* the gate without the .lower() of line 30
is_supported_format_CaseSensitive(file_path) ==
    splitext(file_path)[2] \in SUPPORTED_FORMATS

is_supported_format(file_path) ==
    LET ext == lower(splitext(file_path)[2])
    IN  ext \in SUPPORTED_FORMATS

(***************************************************************************)
(* Pillow, as lines 38-83 use it.  An image is [mode, size, data]; data     *)
(* says where the pixels come from.  An operation returns [exc, msg, val]: *)
(* exc = "none" and the value, or the exception it raises and its text.    *)
(***************************************************************************)
Ok(v) == [exc |-> "none", msg |-> <<>>, val |-> v]
Raise(e, m) == [exc |-> e, msg |-> m, val |-> <<>>]

\* a statement of the try block followed by the rest of the block: what the
\* statement raises, or the rest run on its value
Try(r, Rest(_)) == IF r.exc # "none" THEN r ELSE Rest(r.val)

BLACK == <<0, 0, 0>>

\* Image.open: the file must exist and hold image data
Image_open(disk, input_path) ==
    IF input_path \notin DOMAIN disk
    THEN Raise("FileNotFoundError", <<"No such file or directory", input_path>>)
    ELSE IF disk[input_path].kind # "image"
    THEN Raise("UnidentifiedImageError", <<"cannot identify image file", input_path>>)
    ELSE Ok([mode |-> disk[input_path].mode, size |-> disk[input_path].size,
             data |-> [op |-> "decode", of |-> input_path]])

\* img.convert('RGB')
Image_convert(img, mode) ==
    [mode |-> mode, size |-> img.size, data |-> [op |-> "convert", of |-> img.data]]

\* Image.new(mode, size, color)
Image_new(mode, size, color) ==
    [mode |-> mode, size |-> size, data |-> [op |-> "fill", color |-> color]]

\* img.resize(size, Image.LANCZOS): both sides of the new size must be >= 1
Image_resize(img, size) ==
    IF size[1] < 1 \/ size[2] < 1
    THEN Raise("ValueError", <<"height and width must be > 0">>)
    ELSE Ok([mode |-> img.mode, size |-> size,
             data |-> [op |-> "resize", filter |-> "LANCZOS", of |-> img.data]])

\* canvas.paste(im, (left, top)): the canvas keeps its size
Image_paste(canvas, im, box) ==
    [mode |-> canvas.mode, size |-> canvas.size,
     data |-> [op |-> "paste", base |-> canvas.data, over |-> im, at |-> box]]

\* a save that records the file's own name in the PNG it writes
Image_save_Stamped(files, folders, img, output_path) ==
    IF dirname(output_path) \notin folders
    THEN Raise("FileNotFoundError", <<"No such file or directory", output_path>>)
    ELSE Ok([p \in DOMAIN files \cup {output_path} |->
                IF p = output_path
                THEN [format |-> "PNG", mode |-> img.mode, size |-> img.size,
                      data |-> [op |-> "named", name |-> output_path, of |-> img.data]]
                ELSE files[p]])

\* img.save(output_path, 'PNG'): the directory must exist; an existing file is
\* replaced.  val is the file system after the write.
Image_save(files, folders, img, output_path) ==
    IF dirname(output_path) \notin folders
    THEN Raise("FileNotFoundError", <<"No such file or directory", output_path>>)
    ELSE Ok([p \in DOMAIN files \cup {output_path} |->
                IF p = output_path
                THEN [format |-> "PNG", mode |-> img.mode, size |-> img.size,
                      data |-> img.data]
                ELSE files[p]])

\* The colour of pixel (x, y) of an image: the fill colour, or the pixel of the
\* image it was taken from.
PixelOf(img, x, y) ==
    IF img.data.op = "fill" THEN [rgb |-> img.data.color]
    ELSE IF img.data.op = "paste"
    THEN LET l == img.data.at[1]
             t == img.data.at[2]
             o == img.data.over
         IN  IF /\ l <= x /\ x < l + o.size[1]
                /\ t <= y /\ y < t + o.size[2]
             THEN [from |-> o.data, at |-> <<x - l, y - t>>]
             ELSE [rgb |-> img.data.base.color]
    ELSE [from |-> img.data, at |-> <<x, y>>]

(***************************************************************************)
(* ImageProcessor.convert_resize_image                                     *)
(***************************************************************************)
\* the comparison of line 56 turned round: the source covers the target
ScaledSize_Cover(img_width, img_height, target_width, target_height) ==
    LET aspect_ratio == FDiv(FromInt(img_width), FromInt(img_height))
        target_ratio == FDiv(FromInt(target_width), FromInt(target_height))
    IN  IF FGt(target_ratio, aspect_ratio)
        THEN <<target_width, Trunc(FDiv(FromInt(target_width), aspect_ratio))>>
        ELSE <<Trunc(FMul(FromInt(target_height), aspect_ratio)), target_height>>

\* lines 52-63: the size the source is scaled to
ScaledSize(img_width, img_height, target_width, target_height) ==
    LET aspect_ratio == FDiv(FromInt(img_width), FromInt(img_height))
        target_ratio == FDiv(FromInt(target_width), FromInt(target_height))
    IN  IF FGt(aspect_ratio, target_ratio)
        THEN <<target_width, Trunc(FDiv(FromInt(target_width), aspect_ratio))>>
        ELSE <<Trunc(FMul(FromInt(target_height), aspect_ratio)), target_height>>

\* lines 72-73
PastePosition(target, new) == <<(target[1] - new[1]) \div 2, (target[2] - new[2]) \div 2>>

\* lines 51-80 without the canvas: the scaled image itself is saved
Letterbox_Bare(img, target, maintain_aspect) ==
    IF maintain_aspect
    THEN Image_resize(img, ScaledSize(img.size[1], img.size[2], target[1], target[2]))
    ELSE Image_resize(img, target)

\* lines 66-77: the canvas, the scaled image, the paste
PasteCentred(img, target, new) ==
    Try(Image_resize(img, new), LAMBDA resized_img :
        Ok(Image_paste(Image_new("RGB", target, BLACK), resized_img,
                       PastePosition(target, new))))

\* lines 51-80: the image to save
Letterbox(img, target, maintain_aspect) ==
    IF maintain_aspect
    THEN PasteCentred(img, target,
                      ScaledSize(img.size[1], img.size[2], target[1], target[2]))
    ELSE Image_resize(img, target)

InvalidTypeMsg(image_type) == <<"Tipo de imagen no valido", image_type>>

\* line 45
TargetSize(image_type) ==
    IF image_type \in DOMAIN DIMENSIONS THEN DIMENSIONS[image_type] ELSE <<0, 0>>

\* lines 47-48
CheckedSize(image_type, target) ==
    IF target[1] = 0 \/ target[2] = 0 THEN Raise("ValueError", InvalidTypeMsg(image_type))
    ELSE Ok(target)

\* lines 41-42
AsRGB(img) == IF img.mode # "RGB" THEN Image_convert(img, "RGB") ELSE img

\* lines 37-84, the body of the try: what it raises, or the file system it leaves
ConvertBody(disk, files, folders, input_path, output_path, image_type, maintain_aspect) ==
    Try(Image_open(disk, input_path), LAMBDA opened :
    Try(Ok(AsRGB(opened)), LAMBDA img :
    Try(CheckedSize(image_type, TargetSize(image_type)), LAMBDA target :
    Try(Letterbox(img, target, maintain_aspect), LAMBDA out :
    Image_save(files, folders, out, output_path)))))

\* lines 84-87 with an except clause that lets a ValueError through
Returned_NoCatch(body, files, output_path) ==
    IF body.exc = "none"
    THEN [ret |-> <<TRUE, output_path>>, files |-> body.val, exc |-> "none"]
    ELSE IF body.exc = "ValueError"
    THEN [ret |-> <<FALSE, body.msg>>, files |-> files, exc |-> body.exc]
    ELSE [ret |-> <<FALSE, body.msg>>, files |-> files, exc |-> "none"]

\* lines 84-87: [ret, files, exc]: the pair returned, the file system afterwards,
\* and the exception that leaves the function ("none": every Exception is caught)
Returned(body, files, output_path) ==
    IF body.exc = "none"
    THEN [ret |-> <<TRUE, output_path>>, files |-> body.val, exc |-> "none"]
    ELSE [ret |-> <<FALSE, body.msg>>, files |-> files, exc |-> "none"]

\* lines 34-87
convert_resize_image(disk, files, folders, input_path, output_path, image_type, maintain_aspect) ==
    Returned(ConvertBody(disk, files, folders, input_path, output_path, image_type,
                         maintain_aspect), files, output_path)

(***************************************************************************)
(* ImageProcessor.batch_process: the output naming of lines 100-109.       *)
(***************************************************************************)
\* os.path.exists
exists(files, folders, p) == p \in DOMAIN files \/ p \in folders

\* line 101
OutputName(base_name, image_type) == base_name \o <<"_", image_type, ".", "png">>

\* line 107
OutputNameN(base_name, image_type, counter) ==
    base_name \o <<"_", image_type, "_", ToString(counter), ".", "png">>

\* lines 106-109: the while loop, entered with output_path and counter
RECURSIVE FreePath(_, _, _, _, _, _, _)
FreePath(files, folders, output_dir, base_name, image_type, output_path, counter) ==
    IF exists(files, folders, output_path)
    THEN FreePath(files, folders, output_dir, base_name, image_type,
                  join(output_dir, OutputNameN(base_name, image_type, counter)), counter + 1)
    ELSE output_path

\* lines 100-109 with an if in place of the while: the name is tested once
ChooseOutputPath_Once(files, folders, output_dir, input_file, image_type) ==
    LET base_name == splitext(basename(input_file))[1]
        first == join(output_dir, OutputName(base_name, image_type))
    IN  IF exists(files, folders, first)
        THEN join(output_dir, OutputNameN(base_name, image_type, 1))
        ELSE first

\* lines 100-102 alone: the name is never tested
ChooseOutputPath_Fixed(files, folders, output_dir, input_file, image_type) ==
    join(output_dir, OutputName(splitext(basename(input_file))[1], image_type))

\* lines 100-109
ChooseOutputPath(files, folders, output_dir, input_file, image_type) ==
    LET base_name == splitext(basename(input_file))[1]
    IN  FreePath(files, folders, output_dir, base_name, image_type,
                 join(output_dir, OutputName(base_name, image_type)), 1)

UnsupportedMsg == <<"Formato no soportado">>

(***************************************************************************)
(* The state.                                                              *)
(***************************************************************************)
VARIABLES
    source,          \* the input files on disk: path -> [kind, mode, size]
    dirs,            \* the directories that exist
    outfiles,        \* the files under the output directories: path -> content
    pc,              \* "idle", "returned" (convert_resize_image called directly),
                     \* "loop", "named", "done", "aborted" (batch_process)
    input_files,     \* batch_process arguments
    output_dir,
    image_type,
    maintain_aspect,
    callback,        \* TRUE when a callback is passed
    idx,             \* position of the for loop in input_files
    output_path,     \* the output path of the current input / of the direct call
    results,         \* the list batch_process builds
    calls,           \* the callback invocations, in order
    opened,          \* the paths Image.open was called on during the current call
    ret,             \* the pair a direct convert_resize_image call returned
    raised,          \* the exception that left the call, "none" if none did
    handed           \* inputs handed to batch_process so far

\* OPLImageConverterApp (the GUI host), which also owns output_dir, image_type and
\* maintain_aspect above
VARIABLES
    selection,              \* self.input_files
    current_preview_index,  \* self.current_preview_index
    history,                \* self.history
    threads,                \* the process_thread of every Convert press, in order
    clock                   \* the wall clock, in seconds

appVars == <<selection, current_preview_index, history, threads, clock>>

vars == <<source, dirs, outfiles, pc, input_files, output_dir, image_type,
          maintain_aspect, callback, idx, output_path, results, calls, opened,
          ret, raised, handed, appVars>>

\* lines 135-139, 152: the application as constructed
AppInit ==
    /\ selection = <<>>
    /\ current_preview_index = 0
    /\ history = <<>>
    /\ threads = <<>>
    /\ clock = 0

(***************************************************************************)
(* The inputs the model draws from.                                        *)
(***************************************************************************)
AllTypes == DOMAIN DIMENSIONS \cup {"poster"}

Modes == {"RGB", "RGBA"}

ExtraSizes ==
    {<<1920, 1080>>, <<1000, 1>>, <<1, 1000>>, <<19, 1>>, <<7, 10>>, <<7, 3>>,
     <<640, 480>>, <<23, 40>>, <<3, 40>>, <<121, 172>>, <<125, 84>>, <<12, 5>>}

SrcSizes == ((1..MaxDim) \X (1..MaxDim)) \cup ExtraSizes

ImageFile(mode, size) == [kind |-> "image", mode |-> mode, size |-> size]
OtherFile == [kind |-> "other", mode |-> "none", size |-> <<0, 0>>]

\* the file one direct call converts, and where it writes
SrcPath == <<"in", "/", "img", ".", "png">>
TmpDir == <<"tmp">>
PreviewPath == <<"tmp", "/", "preview", ".", "png">>

\* the files batches convert
PhotoA == <<"d1", "/", "photo", ".", "png">>
PhotoB == <<"d2", "/", "photo", ".", "PNG">>
Notes == <<"notes", ".", "txt">>
Broken == <<"bad", ".", "jpg">>

Pool ==
    (PhotoA :> ImageFile("RGB", <<1920, 1080>>)) @@
    (PhotoB :> ImageFile("RGBA", <<7, 3>>)) @@
    (Notes :> OtherFile) @@
    (Broken :> OtherFile)

OutDir == <<"out">>
BatchTypes == {"caratula", "poster"}

\* a file that was in the output directory before the first batch
Foreign == [format |-> "other", mode |-> "none", size |-> <<0, 0>>, data |-> [op |-> "other"]]

InitialOutfiles ==
    {<<>>, join(OutDir, OutputNameN(<<"photo">>, "caratula", 1)) :> Foreign}

InputLists(n) == UNION {[1..k -> DOMAIN Pool] : k \in 0..n}

(***************************************************************************)
(* Direct calls of convert_resize_image (as _update_preview makes them,    *)
(* lines 508-513): one call on one source file.                            *)
(***************************************************************************)
InitConv ==
    /\ source \in {SrcPath :> ImageFile(m, s) : m \in Modes, s \in SrcSizes}
                  \cup {SrcPath :> OtherFile, <<>>}
    /\ dirs \in {{TmpDir}, {}}
    /\ outfiles = <<>>
    /\ pc = "idle"
    /\ input_files = <<>>
    /\ output_dir = TmpDir
    /\ image_type = "caratula"
    /\ maintain_aspect = TRUE
    /\ callback = FALSE
    /\ idx = 1
    /\ output_path = <<>>
    /\ results = <<>>
    /\ calls = <<>>
    /\ opened = {}
    /\ ret = <<FALSE, <<>>>>
    /\ raised = "none"
    /\ handed = 0
    /\ AppInit

ConvertCall(t, a) ==
    /\ pc = "idle"
    /\ \E r \in {convert_resize_image(source, outfiles, dirs, SrcPath, PreviewPath, t, a)} :
           /\ ret' = r.ret
           /\ outfiles' = r.files
           /\ raised' = r.exc
    /\ pc' = "returned"
    /\ image_type' = t
    /\ maintain_aspect' = a
    /\ output_path' = PreviewPath
    /\ opened' = {SrcPath}
    /\ UNCHANGED <<source, dirs, input_files, output_dir, callback, idx, results, calls,
                   handed, appVars>>

NextConv == \E t \in AllTypes, a \in BOOLEAN : ConvertCall(t, a)

SpecConv == InitConv /\ [][NextConv]_vars

(***************************************************************************)
(* batch_process, one call after the other on one output directory.        *)
(***************************************************************************)
Init ==
    /\ source = Pool
    /\ dirs \in {{OutDir}, {}}
    /\ outfiles \in InitialOutfiles
    /\ pc = "idle"
    /\ input_files = <<>>
    /\ output_dir = OutDir
    /\ image_type = "caratula"
    /\ maintain_aspect = TRUE
    /\ callback = FALSE
    /\ idx = 1
    /\ output_path = <<>>
    /\ results = <<>>
    /\ calls = <<>>
    /\ opened = {}
    /\ ret = <<FALSE, <<>>>>
    /\ raised = "none"
    /\ handed = 0
    /\ AppInit

\* lines 90-92: the call
BatchStart(files, t, a, cb) ==
    /\ pc \in {"idle", "done"}
    /\ handed + Len(files) <= MaxInputs
    /\ handed' = handed + Len(files)
    /\ input_files' = files
    /\ image_type' = t
    /\ maintain_aspect' = a
    /\ callback' = cb
    /\ results' = <<>>
    /\ calls' = <<>>
    /\ opened' = {}
    /\ idx' = 1
    /\ output_path' = <<>>
    /\ pc' = "loop"
    /\ UNCHANGED <<source, dirs, outfiles, output_dir, ret, raised, appVars>>

\* lines 95-97: an unsupported input
Unsupported ==
    /\ pc = "loop"
    /\ idx <= Len(input_files)
    /\ ~is_supported_format(input_files[idx])
    /\ results' = Append(results, <<input_files[idx], FALSE, UnsupportedMsg>>)
    /\ idx' = idx + 1
    /\ UNCHANGED <<source, dirs, outfiles, pc, input_files, output_dir, image_type,
                   maintain_aspect, callback, output_path, calls, opened, ret, raised,
                   handed, appVars>>

\* lines 99-109: the output path of a supported input
ChooseName ==
    /\ pc = "loop"
    /\ idx <= Len(input_files)
    /\ is_supported_format(input_files[idx])
    /\ output_path' = ChooseOutputPath(outfiles, dirs, output_dir, input_files[idx],
                                       image_type)
    /\ pc' = "named"
    /\ UNCHANGED <<source, dirs, outfiles, input_files, output_dir, image_type,
                   maintain_aspect, callback, idx, results, calls, opened, ret, raised,
                   handed, appVars>>

\* lines 111-120: the conversion, its outcome, the callback
Convert ==
    /\ pc = "named"
    /\ \E r \in {convert_resize_image(source, outfiles, dirs, input_files[idx], output_path,
                                       image_type, maintain_aspect)} :
       LET input_file == input_files[idx]
           success == r.ret[1]
           message == r.ret[2]
           outcome == <<input_file, success, IF ~success THEN message ELSE output_path>>
       IN  /\ opened' = opened \cup {input_file}
           /\ outfiles' = r.files
           /\ raised' = r.exc
           /\ IF r.exc # "none"
              THEN /\ pc' = "aborted"
                   /\ UNCHANGED <<results, calls, idx>>
              ELSE /\ results' = Append(results, outcome)
                   /\ calls' = IF callback THEN Append(calls, outcome) ELSE calls
                   /\ idx' = idx + 1
                   /\ pc' = "loop"
    /\ UNCHANGED <<source, dirs, input_files, output_dir, image_type, maintain_aspect,
                   callback, output_path, ret, handed, appVars>>

\* line 122
Return ==
    /\ pc = "loop"
    /\ idx > Len(input_files)
    /\ pc' = "done"
    /\ UNCHANGED <<source, dirs, outfiles, input_files, output_dir, image_type,
                   maintain_aspect, callback, idx, output_path, results, calls, opened,
                   ret, raised, handed, appVars>>

Next ==
    \/ \E files \in InputLists(MaxInputs), t \in BatchTypes, a \in BOOLEAN, cb \in BOOLEAN :
          BatchStart(files, t, a, cb)
    \/ Unsupported
    \/ ChooseName
    \/ Convert
    \/ Return

Spec == Init /\ [][Next]_vars

(***************************************************************************)
(* Properties of convert_resize_image, checked under SpecConv.             *)
(***************************************************************************)
\* the direct call returned Success
Succeeded == pc = "returned" /\ ret[1]

\* the source of the direct call is a decodable image
Decodable == SrcPath \in DOMAIN source /\ source[SrcPath].kind = "image"

Written == outfiles[output_path]

\* C1: whenever convert_resize_image returns Success, the image it wrote to
\* output_path has exactly the size DIMENSIONS[image_type], whatever the asset
\* type, the source size and maintain_aspect.
C1_SuccessHasTargetSize ==
    Succeeded =>
        /\ output_path \in DOMAIN outfiles
        /\ image_type \in DOMAIN DIMENSIONS
        /\ Written.format = "PNG"
        /\ Written.size = DIMENSIONS[image_type]

\* a wide source letterboxed into a tall target, and a stretched one
C1_Witness ==
    /\ Succeeded
    /\ source[SrcPath].size = <<1920, 1080>>
    /\ image_type = "borde"
    /\ maintain_aspect

\* C2: with maintain_aspect the conversion of any decodable image, of any positive
\* width and height, to any asset type succeeds with the table's size, the scaled
\* size being at least 1 on both axes (the output directory exists).
C2_AspectAlwaysSucceeds ==
    (/\ pc = "returned"
     /\ maintain_aspect
     /\ Decodable
     /\ image_type \in DOMAIN DIMENSIONS
     /\ dirname(output_path) \in dirs) =>
        LET t == DIMENSIONS[image_type]
            new == ScaledSize(source[SrcPath].size[1], source[SrcPath].size[2], t[1], t[2])
        IN  /\ new[1] >= 1
            /\ new[2] >= 1
            /\ ret[1]
            /\ output_path \in DOMAIN outfiles
            /\ Written.size = t

\* C8: called with an asset type that is no key of DIMENSIONS, convert_resize_image
\* returns the Failure whose reason is the invalid-asset-type reason, whether or
\* not the input is readable and decodable; nothing is raised, nothing is written.
C8_InvalidTypeReason ==
    (pc = "returned" /\ image_type \notin DOMAIN DIMENSIONS) =>
        /\ ret = <<FALSE, InvalidTypeMsg(image_type)>>
        /\ raised = "none"
        /\ output_path \notin DOMAIN outfiles

\* C10: with maintain_aspect the scaled image is pasted at
\* left = (tw - new_width) \div 2, top = (th - new_height) \div 2 on a black canvas
\* of exactly (tw, th); left and top are >= 0, the pasted region lies inside the
\* canvas, the padding on opposite sides differs by at most one pixel, and every
\* pixel outside the pasted region is (0, 0, 0).
C10_CenteredOnBlack ==
    (Succeeded /\ maintain_aspect) =>
        LET t == DIMENSIONS[image_type]
            d == Written.data
        IN  /\ Written.size = t
            /\ d.op = "paste"
            /\ d.base = [op |-> "fill", color |-> <<0, 0, 0>>]
            /\ LET left == d.at[1]
                   top == d.at[2]
                   new_width == d.over.size[1]
                   new_height == d.over.size[2]
                   right == t[1] - new_width - left
                   bottom == t[2] - new_height - top
               IN  /\ left = (t[1] - new_width) \div 2
                   /\ top = (t[2] - new_height) \div 2
                   /\ left >= 0 /\ top >= 0
                   /\ left + new_width <= t[1]
                   /\ top + new_height <= t[2]
                   /\ right - left \in {0, 1}
                   /\ bottom - top \in {0, 1}
                   /\ \A x \in 0..(t[1] - 1), y \in 0..(t[2] - 1) :
                         (~(/\ left <= x /\ x < left + new_width
                            /\ top <= y /\ y < top + new_height))
                         => PixelOf(Written, x, y) = [rgb |-> <<0, 0, 0>>]

\* an odd amount of padding: 7x3 into 140x200 is scaled to 140x59, top 70, bottom 71
C10_Witness ==
    /\ Succeeded
    /\ maintain_aspect
    /\ Written.data.op = "paste"
    /\ Written.data.over.size = <<140, 59>>
    /\ Written.data.at = <<0, 70>>

(***************************************************************************)
(* Properties of batch_process, checked under Spec.                        *)
(***************************************************************************)
Stem(input_file) == splitext(basename(input_file))[1]

\* '<stem>_<asset_type>.png' and '<stem>_<asset_type>_<k>.png' in output_dir
Plain(input_file) == join(output_dir, OutputName(Stem(input_file), image_type))
Suffixed(input_file, k) == join(output_dir, OutputNameN(Stem(input_file), image_type, k))

IsSuccess(outcome) == outcome[2]

\* C3: the name chosen for a supported input is '<stem>_<asset_type>.png' when no
\* file of that name exists in output_dir, otherwise '<stem>_<asset_type>_<k>.png'
\* for the lowest k >= 1 whose name does not exist; the chosen path never exists
\* when it is chosen.
C3_LowestFreeName ==
    pc = "named" =>
        LET f == input_files[idx]
        IN  /\ output_path \notin DOMAIN outfiles
            /\ IF Plain(f) \notin DOMAIN outfiles
               THEN output_path = Plain(f)
               ELSE \E k \in 1..(Cardinality(DOMAIN outfiles) + 1) :
                       /\ output_path = Suffixed(f, k)
                       /\ \A j \in 1..(k - 1) : Suffixed(f, j) \in DOMAIN outfiles

\* the plain name and suffix 1 are taken: suffix 2 is chosen
C3_Witness ==
    /\ pc = "named"
    /\ Plain(input_files[idx]) \in DOMAIN outfiles
    /\ output_path = Suffixed(input_files[idx], 2)

\* a step keeps every file the output directory holds, byte for byte
KeepsFiles ==
    \A p \in DOMAIN outfiles : p \in DOMAIN outfiles' /\ outfiles'[p] = outfiles[p]

DistinctSuccessPaths ==
    \A i, j \in DOMAIN results :
        (i < j /\ IsSuccess(results[i]) /\ IsSuccess(results[j])) => results[i][3] # results[j][3]

\* no file named after this stem and asset type was there before the batch
FreshFor(input_file) ==
    \A p \in {Plain(input_file)} \cup {Suffixed(input_file, k) : k \in 1..(MaxInputs + 1)} :
        p \in DOMAIN outfiles => \E i \in DOMAIN results : IsSuccess(results[i]) /\ results[i][3] = p

InOrderNames ==
    (/\ results # <<>>
     /\ \A i \in DOMAIN results :
           IsSuccess(results[i]) /\ Stem(results[i][1]) = Stem(results[1][1])
     /\ FreshFor(results[1][1])) =>
        \A i \in DOMAIN results :
            results[i][3] = IF i = 1 THEN Plain(results[1][1])
                            ELSE Suffixed(results[1][1], i - 1)

\* C4: with one batch in flight on an output directory, after any sequence of
\* batch_process calls all Success outcomes have pairwise distinct output paths and
\* no Success overwrites a file that was already in output_dir; n inputs of one
\* stem and asset type, all converted, into a directory that holds none of those
\* names are written in input order as the plain name, _1, ..., _<n-1>.
C4_NoOverwriteInOrder ==
    /\ [](DistinctSuccessPaths /\ InOrderNames)
    /\ [][KeepsFiles]_vars

\* photo.png from two folders, three inputs: photo_caratula.png, _1, _2
C4_Witness ==
    /\ pc = "done"
    /\ Len(results) = 3
    /\ results[1][1] # results[2][1]
    /\ \A i \in 1..3 : IsSuccess(results[i])
    /\ results[1][3] = Plain(PhotoA)
    /\ results[2][3] = Suffixed(PhotoA, 1)
    /\ results[3][3] = Suffixed(PhotoA, 2)

\* outcomes i and i+1 are two successful conversions of the same input
Twice(i) ==
    /\ i + 1 \in DOMAIN results
    /\ results[i][1] = results[i + 1][1]
    /\ IsSuccess(results[i])
    /\ IsSuccess(results[i + 1])

FreshBefore(i) ==
    \A p \in {Plain(results[i][1])}
             \cup {Suffixed(results[i][1], k) : k \in 1..(MaxInputs + 1)} :
        p \in DOMAIN outfiles =>
            \E j \in DOMAIN results : j >= i /\ IsSuccess(results[j]) /\ results[j][3] = p

C6_OneOutcomePerInput ==
    /\ raised = "none"
    /\ pc # "aborted"
    /\ pc \in {"loop", "named"} => Len(results) = idx - 1
    /\ pc = "named" => idx <= Len(input_files)
    /\ pc = "loop" => idx <= Len(input_files) + 1
    /\ \A i \in DOMAIN results : i <= Len(input_files) /\ results[i][1] = input_files[i]
    /\ pc = "done" => Len(results) = Len(input_files)

\* a decode failure, then an unsupported file, then a success
C6_Witness ==
    /\ pc = "done"
    /\ input_files = <<Broken, Notes, PhotoA>>
    /\ ~IsSuccess(results[1])
    /\ results[1][3] = <<"cannot identify image file", Broken>>
    /\ ~IsSuccess(results[2])
    /\ IsSuccess(results[3])

\* the extension of the file name, lower-cased, is on the allow-list: the last dot
\* of the path lies in the last component, after an atom of it that is no dot
AllowedExtensions == {"jpg", "jpeg", "png", "bmp", "webp", "tiff", "gif"}

HasAllowedExtension(p) ==
    \E k \in DOMAIN p :
        /\ p[k] = "."
        /\ k + 1 = Len(p)
        /\ p[Len(p)] \notin {".", "/"}
        /\ LowerAtom(p[Len(p)]) \in AllowedExtensions
        /\ \E j \in 1..(k - 1) :
              /\ p[j] \notin {".", "/"}
              /\ \A i \in j..k : p[i] # "/"

GateAtoms == {"/", ".", "photo", "png", "PNG", "txt", "gif"}

GatePaths == UNION {[1..n -> GateAtoms] : n \in 0..MaxPathLen}

GateExact == \A p \in GatePaths \cup DOMAIN Pool : is_supported_format(p) = HasAllowedExtension(p)

UnsupportedOutcome(i) == results[i] = <<input_files[i], FALSE, UnsupportedMsg>>

\* the step taken on an unsupported input: its Failure and nothing else
UnsupportedStep ==
    (pc = "loop" /\ idx <= Len(input_files) /\ ~HasAllowedExtension(input_files[idx])) =>
        /\ results' = Append(results, <<input_files[idx], FALSE, UnsupportedMsg>>)
        /\ opened' = opened
        /\ output_path' = output_path
        /\ outfiles' = outfiles

\* C7: is_supported_format(path) is true exactly when the extension of the path's
\* file name, compared case-insensitively, is one of jpg, jpeg, png, bmp, webp,
\* tiff, gif; batch_process gives exactly the inputs for which it is false the
\* 'unsupported format' Failure, without opening the file, computing an output
\* name or creating a file.
C7_GateAndShortCircuit ==
    /\ [](/\ GateExact
          /\ \A i \in DOMAIN results :
                UnsupportedOutcome(i) <=> ~HasAllowedExtension(input_files[i])
          /\ \A i \in DOMAIN input_files :
                ~HasAllowedExtension(input_files[i]) => input_files[i] \notin opened)
    /\ [][UnsupportedStep]_vars

\* notes.txt is refused, photo.PNG is converted
C7_Witness ==
    /\ pc = "done"
    /\ input_files = <<Notes, PhotoB>>
    /\ UnsupportedOutcome(1)
    /\ IsSuccess(results[2])
    /\ opened = {PhotoB}
    /\ DOMAIN outfiles = {Plain(PhotoB)}

\* C9: when a callback is given, batch_process invokes it exactly once for every
\* input, Success or Failure, in input order, with the triple it appends to the
\* outcome list: the invocations are the outcomes.
C9_CallbackPerInput ==
    (pc = "done" /\ callback) => calls = results

\* every input of the batch is a decodable image with a supported extension
AllValid ==
    \A i \in DOMAIN input_files :
        /\ is_supported_format(input_files[i])
        /\ input_files[i] \in DOMAIN source
        /\ source[input_files[i]].kind = "image"

\* C11: batch_process writes its outputs into the caller's output directory and
\* creates that directory when it is absent: a batch of valid inputs, with a valid
\* asset type, ends with the directory present and one PNG file per input.
C11_CreatesOutputDir ==
    (pc = "done" /\ input_files # <<>> /\ AllValid /\ image_type \in DOMAIN DIMENSIONS) =>
        /\ output_dir \in dirs
        /\ \A i \in DOMAIN results :
              /\ IsSuccess(results[i])
              /\ results[i][3] \in DOMAIN outfiles
              /\ outfiles[results[i][3]].format = "PNG"

\* n / d rounded to the nearest integer, halves to the even one (Python's round)
RoundDiv(n, d) ==
    IF 2 * (n % d) > d \/ (2 * (n % d) = d /\ (n \div d) % 2 = 1) THEN n \div d + 1
    ELSE n \div d

\* the scaled size with round-to-nearest
RoundedSize(sw, sh, tw, th) ==
    IF sw * th > tw * sh THEN <<tw, RoundDiv(tw * sh, sw)>>
    ELSE <<RoundDiv(th * sw, sh), th>>

\* the size of the source of the direct call
SrcSize == source[SrcPath].size

\* C12: with maintain_aspect the scaled size is computed with round-to-nearest:
\* new_width = tw and new_height = round(tw * sh / sw) when sw/sh > tw/th, else
\* new_height = th and new_width = round(th * sw / sh); a 1920x1080 source and
\* asset type 'caratula' give 140x79, pasted at left 0, top 60.
C12_RoundToNearest ==
    (Succeeded /\ maintain_aspect) =>
        /\ Written.data.over.size =
              RoundedSize(SrcSize[1], SrcSize[2], DIMENSIONS[image_type][1],
                          DIMENSIONS[image_type][2])
        /\ (SrcSize = <<1920, 1080>> /\ image_type = "caratula") =>
              /\ Written.data.over.size = <<140, 79>>
              /\ Written.data.at = <<0, 60>>

\* the scaled size new fits the target t; s is the source size
Fits(s, t, new) ==
    /\ new[1] <= t[1]
    /\ new[2] <= t[2]
    /\ IF s[1] * t[2] > t[1] * s[2] THEN new[1] = t[1] ELSE new[2] = t[2]
    /\ s[1] * t[2] = t[1] * s[2] => new = t

\* C13: with maintain_aspect, for every source size and asset type, the branch the
\* ratio comparison takes gives a scaled size that fits the target on both axes,
\* the axis the branch fixes being equal to its target value; a source of the
\* target's ratio fills the canvas exactly.
C13_FitsBothAxes ==
    (pc = "returned" /\ maintain_aspect /\ Decodable /\ image_type \in DOMAIN DIMENSIONS) =>
        \A new \in {ScaledSize(SrcSize[1], SrcSize[2], DIMENSIONS[image_type][1],
                               DIMENSIONS[image_type][2])} :
            /\ Fits(SrcSize, DIMENSIONS[image_type], new)
            /\ Succeeded => Written.data.over.size = new

\* a source of the target's ratio: 7x10 into 140x200 fills the canvas
C13_Witness ==
    /\ Succeeded
    /\ maintain_aspect
    /\ image_type = "caratula"
    /\ SrcSize = <<7, 10>>
    /\ Written.data.over.size = <<140, 200>>
    /\ Written.data.at = <<0, 0>>

(***************************************************************************)
(* OPLImageConverterApp.  A handler of the main thread is one step; the    *)
(* background thread of _process_images takes one step per statement that  *)
(* reads or writes what it shares with the main thread or the file system. *)
(* self.history stands for the history file too, which _save_history       *)
(* rewrites from it after every append.                                    *)
(***************************************************************************)
\* files a dialog or a drop hands over at once, for the preview pane
MaxSelect == 2
\* files a dialog or a drop hands over at once, while batches run
MaxBatchSelect == 1
\* presses of the Convert button
MaxBatches == 2
\* seconds the clock advances
MaxClock == 1

\* line 485
max_size == 300

AppTypes == {"caratula", "disco"}

\* what dialogs and drops hand over: the first files of a folder, or a text file
Shelf == <<PhotoA, Broken, PhotoB, PhotoA>>

Dropped(n) == {SubSeq(Shelf, 1, k) : k \in 0..n} \cup {<<Notes>>}

AltDir == <<"alt">>

\* the core's variables the application leaves alone
coreVars == <<pc, input_files, callback, idx, output_path, results, calls, opened, ret,
              raised, handed>>

\* lines 388, 415, 433: the files of a supported format, in order
valid_files(files) == SelectSeq(files, is_supported_format)

\* lines 484-493: the original scaled into max_size x max_size for display
Thumbnail(img) ==
    IF img.size[1] > max_size \/ img.size[2] > max_size
    THEN Try(Ok(IF FGt(FDiv(FromInt(max_size), FromInt(img.size[1])),
                       FDiv(FromInt(max_size), FromInt(img.size[2])))
                THEN FDiv(FromInt(max_size), FromInt(img.size[2]))
                ELSE FDiv(FromInt(max_size), FromInt(img.size[1]))), LAMBDA ratio :
         Image_resize(img, <<Trunc(FMul(FromInt(img.size[1]), ratio)),
                             Trunc(FMul(FromInt(img.size[2]), ratio))>>))
    ELSE Ok(img)

\* lines 479-513, the try of _update_preview up to the conversion: the temporary
\* directory and the preview file it leaves
PreviewBody(disk, files, folders, current_file, t, a) ==
    Try(Image_open(disk, current_file), LAMBDA img :
    Try(Thumbnail(img), LAMBDA img_preview :
    Ok([dirs |-> folders \cup {TmpDir},
        files |-> convert_resize_image(disk, files, folders \cup {TmpDir}, current_file,
                                       PreviewPath, t, a).files])))

\* lines 534-535: an exception of the try is shown, nothing is written
PreviewShown(r, files, folders) ==
    IF r.exc = "none" THEN r.val ELSE [dirs |-> folders, files |-> files]

\* lines 451-535: [dirs, files] after _update_preview; nothing happens for an empty
\* selection, and line 477 raises for an index outside it
update_preview(disk, files, folders, sel, index, t, a) ==
    IF sel = <<>> \/ index + 1 \notin DOMAIN sel THEN [dirs |-> folders, files |-> files]
    ELSE PreviewShown(PreviewBody(disk, files, folders, sel[index + 1], t, a), files, folders)

\* _update_preview as a handler's last statement
Refresh(sel, index, t, a) ==
    \E pv \in {update_preview(source, outfiles, dirs, sel, index, t, a)} :
        /\ outfiles' = pv.files
        /\ dirs' = pv.dirs

\* lines 416-421, 436-441, 391-396: the new selection, shown from its first file
Select(sel) ==
    /\ selection' = sel
    /\ current_preview_index' = 0
    /\ Refresh(sel, 0, image_type, maintain_aspect)
    /\ UNCHANGED <<source, output_dir, image_type, maintain_aspect, history, threads, clock,
                   coreVars>>

\* lines 403-421: the dialog returned files
SelectFiles(files) ==
    /\ files # <<>>
    /\ Select(valid_files(files))

\* lines 423-441: the dialog returned a folder, files are the files under it
SelectFolder(files) == Select(valid_files(files))

\* lines 387-401: a drop changes the selection only when it holds a supported file
Drop(files) ==
    /\ valid_files(files) # <<>>
    /\ Select(valid_files(files))

\* lines 621-633
ClearSelection ==
    /\ selection' = <<>>
    /\ UNCHANGED <<source, dirs, outfiles, output_dir, image_type, maintain_aspect,
                   current_preview_index, history, threads, clock, coreVars>>

\* lines 539-540: the index after "previous"
PrevIndex(sel, index) == IF sel # <<>> /\ index > 0 THEN index - 1 ELSE index

\* "next" without the - 1 of line 545
NextIndex_OffByOne(sel, index) == IF sel # <<>> /\ index < Len(sel) THEN index + 1 ELSE index

\* lines 545-546: the index after "next"
NextIndex(sel, index) == IF sel # <<>> /\ index < Len(sel) - 1 THEN index + 1 ELSE index

\* a button that moves the preview to index, lines 537-547; _update_preview runs
\* only when the index moved
ShowIndex(index) ==
    /\ current_preview_index' = index
    /\ IF index = current_preview_index THEN UNCHANGED <<outfiles, dirs>>
       ELSE Refresh(selection, index, image_type, maintain_aspect)
    /\ UNCHANGED <<source, output_dir, image_type, maintain_aspect, selection, history,
                   threads, clock, coreVars>>

\* lines 537-541
PrevPreview == ShowIndex(PrevIndex(selection, current_preview_index))

\* lines 543-547
NextPreview == ShowIndex(NextIndex(selection, current_preview_index))

\* lines 184-192: a radio button sets self.image_type and calls _update_preview
SetImageType(t) ==
    /\ image_type' = t
    /\ Refresh(selection, current_preview_index, t, maintain_aspect)
    /\ UNCHANGED <<source, output_dir, maintain_aspect, appVars, coreVars>>

\* lines 198-203: the check button sets self.maintain_aspect and calls _update_preview
SetMaintainAspect(a) ==
    /\ maintain_aspect' = a
    /\ Refresh(selection, current_preview_index, image_type, a)
    /\ UNCHANGED <<source, output_dir, image_type, appVars, coreVars>>

\* lines 443-449
SelectOutputDir(folder) ==
    /\ output_dir' = folder
    /\ UNCHANGED <<source, dirs, outfiles, image_type, maintain_aspect, appVars, coreVars>>

\* the clock moves on
Tick ==
    /\ clock < MaxClock
    /\ clock' = clock + 1
    /\ UNCHANGED <<source, dirs, outfiles, output_dir, image_type, maintain_aspect,
                   selection, current_preview_index, history, threads, coreVars>>

\* line 564: the time as the directory name carries it, one atom
timestamp == ToString(clock)

\* line 565
BatchDir(folder, t, stamp) == join(folder, <<t, "_", stamp>>)

\* os.makedirs that accepts a directory that is already there (exist_ok=True)
makedirs_ExistOk(files, folders, path) == Ok(folders \cup {path})

\* os.makedirs(path), lines 557 and 566: the directory must not exist
makedirs(files, folders, path) ==
    IF exists(files, folders, path)
    THEN Raise("FileExistsError", <<"File exists", path>>)
    ELSE Ok(folders \cup {path})

\* lines 582-589 before the call: the thread as threading.Thread(...).start() leaves it
NewThread(batch_dir, t, a, stamp, total_count) ==
    [pc |-> "start", batch_dir |-> batch_dir, image_type |-> t, maintain_aspect |-> a,
     timestamp |-> stamp, total_count |-> total_count, input_files |-> <<>>, idx |-> 1,
     output_path |-> <<>>, results |-> <<>>]

\* lines 549-619: the Convert button.  An exception of os.makedirs ends the handler
\* before the thread is created.
ProcessImages ==
    /\ selection # <<>>
    /\ Len(threads) < MaxBatches
    /\ \E made \in {makedirs(outfiles, dirs \cup {output_dir}, 
                             BatchDir(output_dir, image_type, timestamp))} :
          IF made.exc # "none"
          THEN /\ dirs' = dirs \cup {output_dir}
               /\ threads' = threads
          ELSE /\ dirs' = made.val
               /\ threads' = Append(threads,
                                    NewThread(BatchDir(output_dir, image_type, timestamp),
                                              image_type, maintain_aspect, timestamp,
                                              Len(selection)))
    /\ UNCHANGED <<source, outfiles, output_dir, image_type, maintain_aspect, selection,
                   current_preview_index, history, clock, coreVars>>

\* the steps of a thread leave the main thread's state alone
ThreadFrame ==
    UNCHANGED <<source, output_dir, image_type, maintain_aspect, selection,
                current_preview_index, clock, coreVars>>

\* lines 583-589: the call evaluates self.input_files when the thread runs
ThreadCall(i) ==
    /\ threads[i].pc = "start"
    /\ threads' = [threads EXCEPT ![i].pc = "loop", ![i].input_files = selection]
    /\ UNCHANGED <<dirs, outfiles, history>>
    /\ ThreadFrame

\* lines 94-109 in the thread: the Failure of an unsupported input, or the output
\* path of a supported one
NamedThread(th, files, folders) ==
    IF ~is_supported_format(th.input_files[th.idx])
    THEN [th EXCEPT !.idx = @ + 1,
                    !.results = Append(@, <<th.input_files[th.idx], FALSE, UnsupportedMsg>>)]
    ELSE [th EXCEPT !.pc = "named",
                    !.output_path = ChooseOutputPath(files, folders, th.batch_dir,
                                                     th.input_files[th.idx], th.image_type)]

ThreadName(i) ==
    /\ threads[i].pc = "loop"
    /\ threads[i].idx <= Len(threads[i].input_files)
    /\ threads' = [threads EXCEPT ![i] = NamedThread(@, outfiles, dirs)]
    /\ UNCHANGED <<dirs, outfiles, history>>
    /\ ThreadFrame

\* lines 116-120 in the thread: the outcome appended (update_progress only writes
\* the status line)
ConvertedThread(th, r) ==
    [th EXCEPT !.pc = "loop", !.idx = @ + 1,
               !.results = Append(@, <<th.input_files[th.idx], r.ret[1],
                                       IF r.ret[1] THEN th.output_path ELSE r.ret[2]>>)]

\* lines 111-120 in the thread
ThreadConvert(i) ==
    /\ threads[i].pc = "named"
    /\ \E r \in {convert_resize_image(source, outfiles, dirs,
                                      threads[i].input_files[threads[i].idx],
                                      threads[i].output_path, threads[i].image_type,
                                      threads[i].maintain_aspect)} :
          /\ outfiles' = r.files
          /\ threads' = [threads EXCEPT ![i] = ConvertedThread(@, r)]
    /\ UNCHANGED <<dirs, history>>
    /\ ThreadFrame

\* line 597: the time to the minute, the clock counting seconds
Minute(now) == now \div 60

\* line 592
success_count(res) == Len(SelectSeq(res, IsSuccess))

\* lines 595-602; "total" is len(self.input_files) when the entry is built
history_entry(th, now, sel) ==
    [timestamp |-> th.timestamp, date |-> Minute(now), type |-> th.image_type,
     total |-> Len(sel), success |-> success_count(th.results),
     directory |-> th.batch_dir]

\* lines 122 and 591-616: batch_process returns, the history entry is appended
ThreadFinish(i) ==
    /\ threads[i].pc = "loop"
    /\ threads[i].idx > Len(threads[i].input_files)
    /\ threads' = [threads EXCEPT ![i].pc = "done"]
    /\ history' = Append(history, history_entry(threads[i], clock, selection))
    /\ UNCHANGED <<dirs, outfiles>>
    /\ ThreadFrame

\* lines 128-153: the application as constructed, its output directory made
InitApp ==
    /\ source = Pool
    /\ dirs = {OutDir}
    /\ outfiles = <<>>
    /\ pc = "idle"
    /\ input_files = <<>>
    /\ output_dir = OutDir
    /\ image_type = "caratula"
    /\ maintain_aspect = TRUE
    /\ callback = FALSE
    /\ idx = 1
    /\ output_path = <<>>
    /\ results = <<>>
    /\ calls = <<>>
    /\ opened = {}
    /\ ret = <<FALSE, <<>>>>
    /\ raised = "none"
    /\ handed = 0
    /\ AppInit

\* the selection, the Convert button and the threads it starts
NextApp ==
    \/ \E files \in Dropped(MaxBatchSelect) : SelectFiles(files)
    \/ \E files \in Dropped(MaxBatchSelect) : SelectFolder(files)
    \/ \E files \in Dropped(MaxBatchSelect) : Drop(files)
    \/ ClearSelection
    \/ \E t \in AppTypes : SetImageType(t)
    \/ ProcessImages
    \/ Tick
    \/ \E i \in DOMAIN threads : ThreadCall(i)
    \/ \E i \in DOMAIN threads : ThreadName(i)
    \/ \E i \in DOMAIN threads : ThreadConvert(i)
    \/ \E i \in DOMAIN threads : ThreadFinish(i)

SpecApp == InitApp /\ [][NextApp]_vars

\* the selection and the preview pane
NextPreviewPane ==
    \/ \E files \in Dropped(MaxSelect) : SelectFiles(files)
    \/ \E files \in Dropped(MaxSelect) : SelectFolder(files)
    \/ \E files \in Dropped(MaxSelect) : Drop(files)
    \/ ClearSelection
    \/ PrevPreview
    \/ NextPreview
    \/ \E t \in AppTypes : SetImageType(t)
    \/ \E a \in BOOLEAN : SetMaintainAspect(a)
    \/ \E folder \in {OutDir, AltDir} : SelectOutputDir(folder)

SpecPreview == InitApp /\ [][NextPreviewPane]_vars

(***************************************************************************)
(* Claims about the application                                            *)
(***************************************************************************)
\* a thread between its call of batch_process and the call's return
InFlight(th) == th.pc \in {"loop", "named"}

\* the outputs a thread has written lie in its batch directory
WritesOwnDir(th) ==
    /\ th.pc = "named" => dirname(th.output_path) = th.batch_dir
    /\ \A k \in DOMAIN th.results :
          th.results[k][2] => dirname(th.results[k][3]) = th.batch_dir

\* C14: under every interleaving of Convert presses and batch threads, each
\* started batch has a batch directory no other batch, running or finished, uses,
\* it writes there only, and the name a thread found free is still free when the
\* thread writes to it
C14_OwnBatchDir ==
    /\ \A i, j \in DOMAIN threads : i # j => threads[i].batch_dir # threads[j].batch_dir
    /\ \A i \in DOMAIN threads : WritesOwnDir(threads[i])
    /\ \A i \in DOMAIN threads :
          threads[i].pc = "named" => ~exists(outfiles, dirs, threads[i].output_path)

\* two batches in flight at once under the same output directory, each about to
\* write
C14_Witness ==
    /\ Len(threads) = 2
    /\ threads[1].pc = "named"
    /\ threads[2].pc = "named"
    /\ dirname(threads[1].batch_dir) = dirname(threads[2].batch_dir)

\* the inputs a batch processed: batch_process returns one outcome for each
Processed(th) == Len(th.results)

\* C15: every history record carries as total the number of inputs its batch
\* processed, and a success count between 0 and that total, whatever the user
\* does to the selection while the batch runs
C15_HistoryTotals ==
    \A h \in DOMAIN history : \A i \in DOMAIN threads :
        threads[i].batch_dir = history[h].directory =>
            /\ history[h].total = Processed(threads[i])
            /\ history[h].success \in 0..history[h].total

\* C16: while the selection is not empty the preview index is an index of it
C16_IndexInSelection ==
    selection # <<>> =>
        /\ 0 <= current_preview_index
        /\ current_preview_index < Len(selection)

\* "next" has moved the preview to the last file of a selection of two
C16_Witness ==
    /\ Len(selection) = 2
    /\ current_preview_index = 1
====
